---------------------------- MODULE Spec2Model ----------------------------
(***************************************************************************)
(* NGN core: the base class every NGN object inherits (an own event        *)
(* emitter, emit / fireEvent / fireWarning / fireError, listener           *)
(* management) and NGN.user.Login, a class derived from it.                *)
(*                                                                         *)
(* An object is a number.  Its prototype is kind[o]; its own properties    *)
(* are _emitter (emitterOf[o], 0 when the property does not exist), the    *)
(* properties Object.defineProperties installed (defined[o]) and the       *)
(* values of its data properties (props[o]).  An emitter is a number too:  *)
(* listeners[e] is its listener list, in registration order.               *)
(*                                                                         *)
(* Every action is one call of a public operation.  last describes the     *)
(* call (operation, receiver, arguments, what was registered and whether   *)
(* the monitor was attached when the call started, how the call ended) and *)
(* trace lists, in order, what the call did that an outsider can see:      *)
(* handler invocations, messages to the monitor, console output.           *)
(***************************************************************************)
EXTENDS Integers, Sequences, FiniteSets, TLC

\* Bounds of the model.
NumInst == 2         \* objects that can be constructed
MaxRegs == 2         \* listener registrations made in one behaviour

Objs == 1 .. NumInst
Emitters == 1 .. NumInst

VARIABLES kind, ctorLog, emitterOf, nextEmitter, maxListeners, listeners,
          nextRid, mechanic, defined, props, last, trace

vars == <<kind, ctorLog, emitterOf, nextEmitter, maxListeners, listeners,
          nextRid, mechanic, defined, props, last, trace>>

busVars == <<emitterOf, nextEmitter, maxListeners, listeners, nextRid>>
objVars == <<kind, ctorLog, defined, props>>

---------------------------------------------------------------------------
(* JavaScript values.  A value is a record [t, v]: its type tag and, for   *)
(* strings, errors and objects, what tells it from the others of its type  *)
(* (a string's text, an Error's message, an event object's type field).    *)

Undefined == [t |-> "undefined", v |-> ""]
Null      == [t |-> "null", v |-> ""]
True      == [t |-> "boolean", v |-> "true"]
False     == [t |-> "boolean", v |-> "false"]
Str(s)    == [t |-> "string", v |-> s]
Err(s)    == [t |-> "Error", v |-> s]
Obj(s)    == [t |-> "object", v |-> s]
Fn(s)     == [t |-> "function", v |-> s]

\* ToBoolean: undefined, null, false and the empty string are false.
Falsy(x) == \/ x.t \in {"undefined", "null"}
            \/ x = False
            \/ x = Str("")

\* a || b
Or(a, b) == IF Falsy(a) THEN b ELSE a

\* x == null
LooseNull(x) == x.t \in {"undefined", "null"}

Events == {"error", "warn", "ev"}

---------------------------------------------------------------------------
(* What a call leaves in trace.                                            *)

\* handler of registration r invoked with arg; handlers are the caller's
\* functions and return without throwing
Call(r, arg) == [k |-> "call", id |-> r.id, owner |-> r.owner, ev |-> r.ev,
                 arg |-> arg]
\* process.mechanic.send(ev, arg)
Send(ev, arg) == [k |-> "send", id |-> 0, owner |-> 0, ev |-> ev, arg |-> arg]
\* console.log / util.error / util.puts output about arg (the string colours
\* of the `colors` package, a dependency of the package, are loaded)
Log(arg) == [k |-> "log", id |-> 0, owner |-> 0, ev |-> "", arg |-> arg]
\* the caller's precondition callback evaluated with arg
Precond(arg) == [k |-> "precond", id |-> 0, owner |-> 0, ev |-> "", arg |-> arg]

Calls(t) == SelectSeq(t, LAMBDA x : x.k = "call")
Sends(t) == SelectSeq(t, LAMBDA x : x.k = "send")
Logs(t)  == SelectSeq(t, LAMBDA x : x.k = "log")

\* the ids of the registrations of a listener list, in order
IdsOf(ls) == [j \in 1 .. Len(ls) |-> ls[j].id]

\* the listeners of emitter e registered for event ev, in registration order
ListenersFor(ls, ev) == SelectSeq(ls, LAMBDA r : r.ev = ev)

NoCall == [op |-> "none", inst |-> 0, ev |-> "", arg |-> Undefined,
           arg2 |-> Undefined, pre |-> <<>>, mon |-> FALSE,
           outcome |-> "returned", ret |-> Undefined]

\* the record of a call: pre is what was registered for ev on the receiver
\* when the call started, mon whether the monitor was attached then
CallOf(op, o, ev, arg, arg2, outcome, ret) ==
    [op |-> op, inst |-> o, ev |-> ev, arg |-> arg, arg2 |-> arg2,
     pre |-> IF emitterOf[o] = 0 THEN <<>>
             ELSE IdsOf(ListenersFor(listeners[emitterOf[o]], ev)),
     mon |-> mechanic, outcome |-> outcome, ret |-> ret]

---------------------------------------------------------------------------
(* events.EventEmitter of node.js (required on line 1, one created per     *)
(* object on line 68).                                                     *)

\* (mutant) one emitter for all objects, as if _emitter sat on the prototype
SharedEmitter(n) == 1

\* new events.EventEmitter(): the next emitter that does not exist yet
NewEmitter(n) == n

\* EventEmitter#on: the listener goes to the end of the list
EmitterOn(ls, r) == Append(ls, r)

\* (mutant) a once listener that is not removed when it runs
EmitterKeepsOnce(ls, r) == ls

\* What is left of the list when the listener r is about to run: a once
\* listener removes itself as it is invoked.
EmitterAfter(ls, r) ==
    IF r.once THEN SelectSeq(ls, LAMBDA x : x.id # r.id) ELSE ls

\* What the function registered as r does when the emitter invokes it, on
\* the result so far (the emitter invokes it with `this` the emitter):
\*   fn       a function of the caller: returns;
\*   emptyFn  NGN.emptyFn: returns;
\*   onError  the method onError, handed over unbound: this.fireError(e)
\*            with `this` the emitter, which has no fireError: a TypeError;
\*   adder    a function of the caller that registers a handler for the
\*            same event with on(): the listener goes to the end of the
\*            list.
HandlerRuns(r, acc) ==
    CASE r.h = "onError" -> [acc EXCEPT !.threw = TRUE]
      [] r.h = "adder"   ->
           [acc EXCEPT !.ls = EmitterOn(@, [id |-> r.id + MaxRegs, owner |-> r.owner,
                                            ev |-> r.ev, once |-> FALSE, h |-> "fn"])]
      [] OTHER -> acc

\* (mutant) the delivery walks the list itself and so reaches the listeners
\* appended while it runs
TodoLive(snap, ls, type) ==
    snap \o SelectSeq(ListenersFor(ls, type),
                      LAMBDA x : \A j \in 1 .. Len(snap) : snap[j].id # x.id)

\* The listeners a delivery walks: the copy of the list made when emit was
\* called, whatever the list has become.
Todo(snap, ls, type) == snap

\* The delivery loop from the j-th listener on: each listener is invoked
\* with arg; a listener that throws ends the delivery and the call.
RECURSIVE Deliver(_, _, _, _, _)
Deliver(snap, j, type, arg, acc) ==
    LET todo == Todo(snap, acc.ls, type) IN
    IF acc.threw \/ j > Len(todo) THEN acc
    ELSE LET r  == todo[j]
             a1 == [acc EXCEPT !.ls = EmitterAfter(@, r),
                               !.t = Append(@, Call(r, arg))]
         IN  Deliver(snap, j + 1, type, arg, HandlerRuns(r, a1))

\* EventEmitter#emit(type, arg).  An 'error' event with no listener for it
\* is thrown (arg itself when it is an Error, a TypeError otherwise).
\* Otherwise the listeners registered for type at that moment are invoked
\* in registration order, each with arg.
EmitterEmit(ls, type, arg) ==
    LET snap == ListenersFor(ls, type) IN
    IF type = "error" /\ snap = <<>>
    THEN [threw |-> TRUE, ls |-> ls, t |-> <<>>]
    ELSE Deliver(snap, 1, type, arg, [threw |-> FALSE, ls |-> ls, t |-> <<>>])

\* EventEmitter#removeAllListeners()
EmitterRemoveAll(ls) == <<>>

---------------------------------------------------------------------------
(* Construction.  An object under construction is a record: the             *)
(* construction logic that has run on it so far (log), its _emitter (0:     *)
(* none), the capacity set on the emitter, the properties defineProperties  *)
(* installed, the values of its data properties, and whether the            *)
(* constructor threw.                                                       *)

PropNames == {"_request", "_data", "_id", "ID", "_accesstoken", "_accessToken",
              "accesstoken", "oauthprovider", "_oauthprovider", "oauth",
              "_modified", "modified"}

NoProps == [p \in PropNames |-> Undefined]

Blank == [log |-> <<>>, emitter |-> 0, maxl |-> 0, defined |-> {},
          props |-> NoProps, threw |-> FALSE]

EmptyConfig == Obj("{}")

\* this._emitter.setMaxListeners(25)
DefaultMaxListeners == 25

\* Class (./Class, not among the sources): the root of the extension
\* protocol.  Its constructor is the construction logic of the outermost
\* ancestor; it receives the configuration and defines nothing the claims
\* depend on.
ClassConstructor(obj, config) == [obj EXCEPT !.log = Append(@, "Class")]

\* NGNClass constructor: default the configuration, run the ancestor's
\* constructor, then define _emitter as a new EventEmitter of capacity 25.
NGNClassConstructor(obj, config, em) ==
    LET c  == Or(config, EmptyConfig)
        o1 == ClassConstructor(obj, c)
    IN  [o1 EXCEPT !.log = Append(@, "NGNClass"),
                   !.emitter = NewEmitter(em),
                   !.maxl = DefaultMaxListeners]

---------------------------------------------------------------------------
(* NGN.user.Login: the property descriptors its constructor hands to       *)
(* Object.defineProperties, by the keys each descriptor holds.             *)

LoginDescriptors ==
    [_request      |-> {"value", "enumerable", "writable"},
     _data         |-> {"value", "writable", "enumerable"},
     _id           |-> {"value", "enumerable", "writable"},
     ID            |-> {"enumerable", "get"},
     _accesstoken  |-> {"value", "writable", "enumerable"},
     accesstoken   |-> {"value", "enumerable", "get", "set"},
     oauthprovider |-> {"value", "enumerable", "get"},
     oauth         |-> {"value", "enumerable", "get"},
     _modified     |-> {"value", "writable", "enumerable"},
     modified      |-> {"enumerable", "get", "set"}]

\* the descriptors that say writable: true
LoginWritable == {"_data", "_id", "_accesstoken", "_modified"}

\* The requests (payloads) of the model, by the user structure each holds:
\* the first key of req.user, req.user.id and req.user.accessToken.
PayloadUser ==
    [fb   |-> [key |-> "facebook", id |-> Str("u1"), accessToken |-> Str("tok")],
     mail |-> [key |-> " Email", id |-> Str("u2"), accessToken |-> Str("tok")]]

HasUser(req) == req.t = "object" /\ req.v \in DOMAIN PayloadUser

\* s.trim().toLowerCase(), on the strings of the model
TrimLower(s) == CASE s = " Email" -> "email"
                  [] s \in {"Error", " Error "} -> "error"
                  [] s = "Ev" -> "ev"
                  [] OTHER -> s

\* s.trim()
Trim(s) == CASE s = " Error " -> "Error"
             [] s = " Email" -> "Email"
             [] OTHER -> s

\* config.request
ConfigRequest(config) == IF config = Obj("{request}") THEN Obj("fb") ELSE Undefined

\* the values the data descriptors give
LoginValues(config) ==
    [_request     |-> Or(ConfigRequest(config), Obj("{}")),
     _data        |-> Null,
     _id          |-> Null,
     _accesstoken |-> Null,
     _modified    |-> False]

\* ToPropertyDescriptor: a descriptor that holds get or set and also value
\* or writable is a TypeError.
InvalidDescriptor(d) == /\ d \cap {"get", "set"} # {}
                        /\ d \cap {"value", "writable"} # {}

\* Object.defineProperties(obj, descs): every descriptor is converted before
\* any property is defined, so one invalid descriptor throws and defines
\* nothing.
DefineProperties(obj, descs, values) ==
    IF \E p \in DOMAIN descs : InvalidDescriptor(descs[p])
    THEN [obj EXCEPT !.threw = TRUE]
    ELSE [obj EXCEPT !.defined = @ \cup DOMAIN descs,
                     !.props = [p \in PropNames |->
                                  IF p \in DOMAIN values THEN values[p] ELSE @[p]]]

\* (mutant) the Login fields set up before the base constructor is called
LoginConstructorFieldsFirst(obj, config, em) ==
    LET c  == Or(config, EmptyConfig)
        o1 == [obj EXCEPT !.log = Append(@, "Login")]
        o2 == DefineProperties(o1, LoginDescriptors, LoginValues(c))
    IN  NGNClassConstructor(o2, config, em)

\* Login constructor: the base constructor first, with the same config;
\* then config defaulted and the Login properties defined.
LoginConstructor(obj, config, em) ==
    LET o1 == NGNClassConstructor(obj, config, em)
        c  == Or(config, EmptyConfig)
        o2 == [o1 EXCEPT !.log = Append(@, "Login")]
    IN  DefineProperties(o2, LoginDescriptors, LoginValues(c))

---------------------------------------------------------------------------
(* The operations of the base class, as functions of the receiver's        *)
(* listener list ls and of whether process.mechanic exists (mon).  Each    *)
(* yields whether it threw, the listener list it leaves and its trace.     *)

\* emit(eventName, metadata): this._emitter.emit(eventName, metadata || null)
NGNEmit(ls, eventName, metadata) == EmitterEmit(ls, eventName, Or(metadata, Null))

\* fireEvent(eventName, metadata): emit, then process.mechanic.send when the
\* process has a mechanic.
FireEventOp(ls, mon, eventName, metadata) ==
    LET e == NGNEmit(ls, eventName, metadata) IN
    IF e.threw THEN e
    ELSE [e EXCEPT !.t = @ \o (IF mon THEN <<Send(eventName, metadata)>> ELSE <<>>)]

Preconditions == {"omitted", "true", "false"}

\* (mutant) the result of the callback is not looked at
FireWarningIgnoresVeto(ls, warning, callback) ==
    LET pre == IF callback = "omitted" THEN <<>> ELSE <<Precond(warning)>>
        e   == EmitterEmit(ls, "warn", warning)
    IN  [e EXCEPT !.t = pre \o <<Log(warning)>> \o @]

\* (mutant) a fireWarning that passes the warning on to the monitor the way
\* fireEvent passes events on
FireWarningBubbles(ls, warning, callback) ==
    LET pre == IF callback = "omitted" THEN <<>> ELSE <<Precond(warning)>> IN
    IF callback = "false"
    THEN [threw |-> FALSE, ls |-> ls, t |-> pre]
    ELSE LET e == EmitterEmit(ls, "warn", warning) IN
         [e EXCEPT !.t = pre \o <<Log(warning)>> \o @ \o <<Send("warn", warning)>>]

\* fireWarning(warning, callback): callback (when given) is called with the
\* warning; when it returns a true value the warning is written to the
\* console and 'warn' is emitted on the emitter with the warning itself.
FireWarningOp(ls, warning, callback) ==
    LET pre == IF callback = "omitted" THEN <<>> ELSE <<Precond(warning)>> IN
    IF callback = "false"
    THEN [threw |-> FALSE, ls |-> ls, t |-> pre]
    ELSE LET e == EmitterEmit(ls, "warn", warning) IN
         [e EXCEPT !.t = pre \o <<Log(warning)>> \o @]

\* error = typeof error === 'string' ? new Error(error) : error
NormalizeError(error) == IF error.t = "string" THEN Err(error.v) ELSE error

\* fireError(error): normalize, print the error and its stack trace, then
\* fireEvent('error', error); return true.
FireErrorOp(ls, mon, error) ==
    LET n == NormalizeError(error)
        f == FireEventOp(ls, mon, "error", n)
    IN  [f EXCEPT !.t = <<Log(n)>> \o @]

---------------------------------------------------------------------------
(* Actions: one per public operation.                                      *)

Exists(o) == kind[o] # "none"

Configs == {Undefined, EmptyConfig}
Meta == {Undefined, Obj("m")}
Warnings == {Str(""), Str("w")}
ErrorInputs == {Str("boom"), Err("bad")}
Capacities == {0, DefaultMaxListeners}

\* the state of an object o after its constructor ran and left r
Constructed(o, k, r) ==
    /\ kind' = [kind EXCEPT ![o] = k]
    /\ ctorLog' = [ctorLog EXCEPT ![o] = r.log]
    /\ emitterOf' = [emitterOf EXCEPT ![o] = r.emitter]
    /\ nextEmitter' = IF r.emitter = 0 THEN nextEmitter ELSE nextEmitter + 1
    /\ maxListeners' = IF r.emitter = 0 THEN maxListeners
                       ELSE [maxListeners EXCEPT ![r.emitter] = r.maxl]
    /\ defined' = [defined EXCEPT ![o] = r.defined]
    /\ props' = [props EXCEPT ![o] = r.props]
    /\ UNCHANGED <<listeners, nextRid, mechanic>>

\* new NGNClass(config)
NewBase(o, config) ==
    /\ kind[o] = "none"
    /\ LET r == NGNClassConstructor(Blank, config, nextEmitter) IN
       /\ Constructed(o, "Base", r)
       /\ last' = [NoCall EXCEPT !.op = "new NGNClass", !.inst = o,
                                 !.arg = config,
                                 !.outcome = IF r.threw THEN "threw" ELSE "returned"]
       /\ trace' = <<>>

\* What on and once hand to the emitter: the id-th listener registered, by
\* a call on o, for eventName; once tells the emitter to drop it as it runs.
OnReg(id, o, eventName) ==
    [id |-> id, owner |-> o, ev |-> eventName, once |-> FALSE, h |-> "fn"]

OnceReg(id, o, eventName) ==
    [id |-> id, owner |-> o, ev |-> eventName, once |-> TRUE, h |-> "fn"]

\* o.on(eventName, callback), with a callback
On(o, eventName) ==
    /\ Exists(o) /\ emitterOf[o] # 0
    /\ nextRid <= MaxRegs
    /\ LET r == OnReg(nextRid, o, eventName) IN
       listeners' = [listeners EXCEPT ![emitterOf[o]] = EmitterOn(@, r)]
    /\ nextRid' = nextRid + 1
    /\ last' = CallOf("on", o, eventName, Fn("handler"), Undefined, "returned", Undefined)
    /\ trace' = <<>>
    /\ UNCHANGED <<emitterOf, nextEmitter, maxListeners, mechanic, objVars>>

\* o.once(eventName, handler), with a handler
Once(o, eventName) ==
    /\ Exists(o) /\ emitterOf[o] # 0
    /\ nextRid <= MaxRegs
    /\ LET r == OnceReg(nextRid, o, eventName) IN
       listeners' = [listeners EXCEPT ![emitterOf[o]] = EmitterOn(@, r)]
    /\ nextRid' = nextRid + 1
    /\ last' = CallOf("once", o, eventName, Fn("handler"), Undefined, "returned", Undefined)
    /\ trace' = <<>>
    /\ UNCHANGED <<emitterOf, nextEmitter, maxListeners, mechanic, objVars>>

\* o.once(eventName, function () { o.on(eventName, handler); }): a handler
\* that registers another handler for the event when it runs
OnceAdder(o, eventName) ==
    /\ Exists(o) /\ emitterOf[o] # 0
    /\ nextRid <= MaxRegs
    /\ LET r == [OnceReg(nextRid, o, eventName) EXCEPT !.h = "adder"] IN
       listeners' = [listeners EXCEPT ![emitterOf[o]] = EmitterOn(@, r)]
    /\ nextRid' = nextRid + 1
    /\ last' = CallOf("once", o, eventName, Fn("adder"), Undefined, "returned", Undefined)
    /\ trace' = <<>>
    /\ UNCHANGED <<emitterOf, nextEmitter, maxListeners, mechanic, objVars>>

\* o.setMaxListeners(eventCount)
SetMaxListeners(o, eventCount) ==
    /\ Exists(o) /\ emitterOf[o] # 0
    /\ maxListeners' = [maxListeners EXCEPT ![emitterOf[o]] = eventCount]
    /\ last' = CallOf("setMaxListeners", o, "", Undefined, Undefined, "returned", Undefined)
    /\ trace' = <<>>
    /\ UNCHANGED <<emitterOf, nextEmitter, listeners, nextRid, mechanic, objVars>>

\* o.removeAllListeners()
RemoveAllListeners(o) ==
    /\ Exists(o) /\ emitterOf[o] # 0
    /\ listeners' = [listeners EXCEPT ![emitterOf[o]] = EmitterRemoveAll(@)]
    /\ last' = CallOf("removeAllListeners", o, "", Undefined, Undefined, "returned", Undefined)
    /\ trace' = <<>>
    /\ UNCHANGED <<emitterOf, nextEmitter, maxListeners, nextRid, mechanic, objVars>>

\* the state after a call of op on o that left r (see the operations above)
Ran(op, o, ev, arg, arg2, r, ret) ==
    /\ listeners' = [listeners EXCEPT ![emitterOf[o]] = r.ls]
    /\ last' = CallOf(op, o, ev, arg, arg2, IF r.threw THEN "threw" ELSE "returned",
                      IF r.threw THEN Undefined ELSE ret)
    /\ trace' = r.t
    /\ UNCHANGED <<emitterOf, nextEmitter, maxListeners, nextRid, mechanic, objVars>>

\* o.emit(eventName, metadata)
Emit(o, eventName, metadata) ==
    /\ Exists(o) /\ emitterOf[o] # 0
    /\ Ran("emit", o, eventName, metadata, Undefined,
           NGNEmit(listeners[emitterOf[o]], eventName, metadata), Undefined)

\* o.fireEvent(eventName, metadata)
FireEvent(o, eventName, metadata) ==
    /\ Exists(o) /\ emitterOf[o] # 0
    /\ Ran("fireEvent", o, eventName, metadata, Undefined,
           FireEventOp(listeners[emitterOf[o]], mechanic, eventName, metadata),
           Undefined)

\* o.fireWarning(warning, callback)
FireWarning(o, warning, callback) ==
    /\ Exists(o) /\ emitterOf[o] # 0
    /\ Ran("fireWarning", o, "warn", warning, Str(callback),
           FireWarningOp(listeners[emitterOf[o]], warning, callback), Undefined)

\* o.fireError(error)
FireError(o, error) ==
    /\ Exists(o) /\ emitterOf[o] # 0
    /\ Ran("fireError", o, "error", error, Undefined,
           FireErrorOp(listeners[emitterOf[o]], mechanic, error), True)

\* NGN.emptyFn, of the NGN namespace the class requires: a function that
\* does nothing.
EmptyFn == "emptyFn"

\* this['on' + name] of an object of the base class: onError is the one
\* method of that form.
MethodOn(name) == IF name = "Error" THEN Fn("onError") ELSE Undefined

\* the function on(eventName, callback) hands to the emitter:
\* callback || NGN.emptyFn
HandlerOf(callback) ==
    LET f == Or(callback, Fn(EmptyFn)) IN
    IF f.v \in {"onError", EmptyFn} THEN f.v ELSE "fn"

\* the arrays of event names addEventListeners is called with
EvtArrays == {Obj("['Error']"), Obj("[' Error ']"), Obj("['error']"),
              Obj("['Ev']"), Obj("['Error','Ev']")}
Elements(evt) ==
    CASE evt = Obj("['Error']")      -> <<"Error">>
      [] evt = Obj("[' Error ']")    -> <<" Error ">>
      [] evt = Obj("['error']")      -> <<"error">>
      [] evt = Obj("['Ev']")         -> <<"Ev">>
      [] evt = Obj("['Error','Ev']") -> <<"Error", "Ev">>

\* (mutant) a name with no method of the object is passed over
RECURSIVE AddEventListenersSkips(_, _, _, _, _)
AddEventListenersSkips(ls, rid, o, evt, i) ==
    IF i > Len(evt) THEN ls
    ELSE IF Falsy(MethodOn(Trim(evt[i])))
         THEN AddEventListenersSkips(ls, rid + 1, o, evt, i + 1)
         ELSE AddEventListenersSkips(
                  EmitterOn(ls, [id |-> rid, owner |-> o, ev |-> TrimLower(evt[i]),
                                 once |-> FALSE,
                                 h |-> HandlerOf(MethodOn(Trim(evt[i])))]),
                  rid + 1, o, evt, i + 1)

\* the loop of addEventListeners from evt[i] on:
\* this.on(evt[i].trim().toLowerCase(), this['on' + evt[i].trim()])
RECURSIVE AddEventListenersOp(_, _, _, _, _)
AddEventListenersOp(ls, rid, o, evt, i) ==
    IF i > Len(evt) THEN ls
    ELSE AddEventListenersOp(
             EmitterOn(ls, [id |-> rid, owner |-> o, ev |-> TrimLower(evt[i]),
                            once |-> FALSE,
                            h |-> HandlerOf(MethodOn(Trim(evt[i])))]),
             rid + 1, o, evt, i + 1)

\* o.addEventListeners(evt)
AddEventListeners(o, evt) ==
    /\ Exists(o) /\ emitterOf[o] # 0
    /\ nextRid + Len(Elements(evt)) - 1 <= MaxRegs
    /\ listeners' = [listeners EXCEPT ![emitterOf[o]] =
                        AddEventListenersOp(@, nextRid, o, Elements(evt), 1)]
    /\ nextRid' = nextRid + Len(Elements(evt))
    /\ last' = CallOf("addEventListeners", o, "error", evt, Undefined,
                      "returned", Undefined)
    /\ trace' = <<>>
    /\ UNCHANGED <<emitterOf, nextEmitter, maxListeners, mechanic, objVars>>

---------------------------------------------------------------------------
(* Property access on a Login object.  A property defineProperties          *)
(* installed behaves as its descriptor says; any other name is an ordinary  *)
(* own property (reading it yields its value, undefined when it was never   *)
(* written; writing it stores the value).  None of the names is defined on  *)
(* a prototype.                                                             *)

Returned(o, v) == [threw |-> FALSE, val |-> v, props |-> props[o],
                   ls |-> listeners[emitterOf[o]], t |-> <<>>]
Threw(o) == [threw |-> TRUE, val |-> Undefined, props |-> props[o],
             ls |-> listeners[emitterOf[o]], t |-> <<>>]

\* this.request and this.bus: no constructor defines a property of either
\* name, so both are undefined and reading a member of them is a TypeError.
ThisRequest == Undefined
ThisBus == Undefined

\* get oauthprovider: this.request.user.type.trim().toLowerCase()
OauthproviderGet(o) ==
    IF LooseNull(ThisRequest) THEN Threw(o) ELSE Returned(o, Undefined)

\* get accesstoken: `!this.oauthprovider == null` compares a boolean with
\* null and is false; for 'email' a warning goes to this.bus; otherwise the
\* value of _accessToken, or null.
AccesstokenGet(o) ==
    LET p == OauthproviderGet(o) IN
    IF p.threw THEN p
    ELSE IF p.val = Str("email")
         THEN (IF LooseNull(ThisBus) THEN Threw(o) ELSE Returned(o, Null))
         ELSE Returned(o, Or(props[o]["_accessToken"], Null))

\* the switch of get oauth
ProviderCode(name) ==
    CASE name = Str("github")   -> Str("gh")
      [] name = Str("facebook") -> Str("fb")
      [] name = Str("linkedin") -> Str("li")
      [] name = Str("twitter")  -> Str("tw")
      [] name = Str("google")   -> Str("gg")
      [] name = Str("openid")   -> Str("oi")
      [] name = Str("yahoo")    -> Str("yh")
      [] name = Str("dropbox")  -> Str("db")
      [] name = Str("email")    -> Str("eml")
      [] OTHER -> Null

\* get oauth
OauthGet(o) ==
    LET p == OauthproviderGet(o) IN
    IF p.threw THEN p ELSE Returned(o, ProviderCode(p.val))

\* set modified: this.emit('error', {type:'InvalidSet', ...}); the value is
\* dropped.
ModifiedSet(o, value) ==
    LET e == NGNEmit(listeners[emitterOf[o]], "error", Obj("InvalidSet")) IN
    [threw |-> e.threw, val |-> Undefined, props |-> props[o], ls |-> e.ls,
     t |-> e.t]

\* o[p]
GetProp(o, p) ==
    IF p \in defined[o] /\ "get" \in LoginDescriptors[p]
    THEN CASE p = "ID"            -> Returned(o, props[o]["_id"])
           [] p = "modified"      -> Returned(o, props[o]["_modified"])
           [] p = "oauthprovider" -> OauthproviderGet(o)
           [] p = "accesstoken"   -> AccesstokenGet(o)
           [] p = "oauth"         -> OauthGet(o)
    ELSE Returned(o, props[o][p])

\* the data properties after ps[p] = value was stored
Stored(ps, p, value) == [ps EXCEPT ![p] = value]

\* o[p] = value (not in strict mode: a write that is not allowed is dropped)
SetProp(o, p, value) ==
    IF p \in defined[o]
    THEN IF "set" \in LoginDescriptors[p]
         THEN CASE p = "modified"    -> ModifiedSet(o, value)
                [] p = "accesstoken" ->
                     [Returned(o, Undefined) EXCEPT
                        !.props = Stored(props[o], "_accessToken", value)]
         ELSE IF p \in LoginWritable
              THEN [Returned(o, Undefined) EXCEPT !.props = Stored(props[o], p, value)]
              ELSE Returned(o, Undefined)
    ELSE [Returned(o, Undefined) EXCEPT !.props = Stored(props[o], p, value)]

\* ps after `this[p] = value` of a method body, for the names whose write
\* runs no setter code
Assigned(o, ps, p, value) ==
    IF p \in defined[o] /\ p \notin LoginWritable THEN ps ELSE Stored(ps, p, value)

\* processHttpRequest(req)
ProcessHttpRequestOp(o, req) ==
    IF ~HasUser(req) THEN Threw(o)
    ELSE LET u  == PayloadUser[req.v]
             p1 == Assigned(o, props[o], "ID", u.id)
             p2 == Assigned(o, p1, "_data", Obj(req.v))
             p3 == Assigned(o, p2, "_accesstoken", u.accessToken)
             p4 == Assigned(o, p3, "_oauthprovider", Fn(TrimLower(u.key)))
         IN  [Returned(o, Undefined) EXCEPT !.props = p4]

\* authenticate(req): req || this._request || null; with none of them,
\* this.bus.emit('error', ...) and return
AuthenticateOp(o, req) ==
    LET r == Or(Or(req, GetProp(o, "_request").val), Null) IN
    IF LooseNull(r)
    THEN (IF LooseNull(ThisBus) THEN Threw(o) ELSE Returned(o, Undefined))
    ELSE Returned(o, Undefined)

LoginConfigs == {Undefined, EmptyConfig, Obj("{identityId}"), Obj("{request}")}
Readable == {"ID", "accesstoken", "oauthprovider", "oauth", "modified"}
Writes == {<<"modified", True>>, <<"accesstoken", Str("tok2")>>,
           <<"oauthprovider", Str("github")>>}
Requests == {Obj("fb"), Obj("mail"), Obj("{}")}

\* new Login(config).  The object is the constructor's `this`: it exists,
\* with whatever the constructors defined on it, also when the constructor
\* threw (a derived constructor, or any caller that applied the constructor
\* to an object it holds, as line 60 does, still has it).
NewLogin(o, config) ==
    /\ kind[o] = "none"
    /\ LET r == LoginConstructor(Blank, config, nextEmitter) IN
       /\ Constructed(o, "Login", r)
       /\ last' = [NoCall EXCEPT !.op = "new Login", !.inst = o,
                                 !.arg = config,
                                 !.outcome = IF r.threw THEN "threw" ELSE "returned"]
       /\ trace' = <<>>

\* the state after a call on the Login o that left r
RanLogin(op, o, ev, arg, arg2, r) ==
    /\ listeners' = [listeners EXCEPT ![emitterOf[o]] = r.ls]
    /\ props' = [props EXCEPT ![o] = r.props]
    /\ last' = CallOf(op, o, ev, arg, arg2, IF r.threw THEN "threw" ELSE "returned",
                      r.val)
    /\ trace' = r.t
    /\ UNCHANGED <<emitterOf, nextEmitter, maxListeners, nextRid, mechanic,
                   kind, ctorLog, defined>>

\* reading o[p]
ReadProp(o, p) ==
    /\ kind[o] = "Login" /\ emitterOf[o] # 0
    /\ RanLogin("get", o, "error", Str(p), Undefined, GetProp(o, p))

\* o[p] = value
WriteProp(o, p, value) ==
    /\ kind[o] = "Login" /\ emitterOf[o] # 0
    /\ RanLogin("set", o, "error", Str(p), value, SetProp(o, p, value))

\* o.processHttpRequest(req)
ProcessHttpRequest(o, req) ==
    /\ kind[o] = "Login" /\ emitterOf[o] # 0
    /\ RanLogin("processHttpRequest", o, "error", req, Undefined,
                ProcessHttpRequestOp(o, req))

\* o.authenticate(req)
Authenticate(o, req) ==
    /\ kind[o] = "Login" /\ emitterOf[o] # 0
    /\ RanLogin("authenticate", o, "error", req, Undefined, AuthenticateOp(o, req))

\* The surrounding process attaches a monitor (process.mechanic) or takes it
\* away; no operation of the classes does.
AttachMonitor ==
    /\ ~mechanic
    /\ mechanic' = TRUE
    /\ last' = [NoCall EXCEPT !.op = "attach"]
    /\ trace' = <<>>
    /\ UNCHANGED <<busVars, objVars>>

DetachMonitor ==
    /\ mechanic
    /\ mechanic' = FALSE
    /\ last' = [NoCall EXCEPT !.op = "detach"]
    /\ trace' = <<>>
    /\ UNCHANGED <<busVars, objVars>>

---------------------------------------------------------------------------
Init ==
    /\ kind = [o \in Objs |-> "none"]
    /\ ctorLog = [o \in Objs |-> <<>>]
    /\ emitterOf = [o \in Objs |-> 0]
    /\ nextEmitter = 1
    /\ maxListeners = [e \in Emitters |-> 0]
    /\ listeners = [e \in Emitters |-> <<>>]
    /\ nextRid = 1
    /\ mechanic = FALSE
    /\ defined = [o \in Objs |-> {}]
    /\ props = [o \in Objs |-> NoProps]
    /\ last = NoCall
    /\ trace = <<>>

\* The object the one-object specifications construct and call.
Solo == {1}

\* One object of the base class and every operation it has.
Next ==
    \/ \E o \in Solo, c \in Configs : NewBase(o, c)
    \/ \E o \in Solo, e \in Events : On(o, e)
    \/ \E o \in Solo, e \in Events : Once(o, e)
    \/ \E o \in Solo, n \in Capacities : SetMaxListeners(o, n)
    \/ \E o \in Solo : RemoveAllListeners(o)
    \/ \E o \in Solo, e \in Events, m \in Meta : Emit(o, e, m)
    \/ \E o \in Solo, e \in Events, m \in Meta : FireEvent(o, e, m)
    \/ \E o \in Solo, w \in Warnings, cb \in Preconditions : FireWarning(o, w, cb)
    \/ \E o \in Solo, x \in ErrorInputs : FireError(o, x)
    \/ AttachMonitor
    \/ DetachMonitor

Spec == Init /\ [][Next]_vars

\* Several objects of the base class, each with its own listeners.
NextPair ==
    \/ \E o \in Objs, c \in Configs : NewBase(o, c)
    \/ \E o \in Objs, e \in Events : On(o, e)
    \/ \E o \in Objs : RemoveAllListeners(o)
    \/ \E o \in Objs, e \in Events : Emit(o, e, Obj("m"))
    \/ \E o \in Objs, e \in Events : FireEvent(o, e, Obj("m"))
    \/ \E o \in Objs : FireWarning(o, Str("w"), "omitted")
    \/ \E o \in Objs : FireError(o, Str("boom"))

SpecPair == Init /\ [][NextPair]_vars

\* One Login and the operations it adds to the inherited ones.
NextLogin ==
    \/ \E o \in Solo, c \in LoginConfigs : NewLogin(o, c)
    \/ \E o \in Solo, e \in Events : On(o, e)
    \/ \E o \in Solo : RemoveAllListeners(o)
    \/ \E o \in Solo, p \in Readable : ReadProp(o, p)
    \/ \E o \in Solo, w \in Writes : WriteProp(o, w[1], w[2])
    \/ \E o \in Solo, r \in Requests : ProcessHttpRequest(o, r)
    \/ \E o \in Solo, r \in {Undefined, Obj("fb")} : Authenticate(o, r)

SpecLogin == Init /\ [][NextLogin]_vars

\* One object of the base class whose listeners are its own methods, bound
\* by name.
NextBind ==
    \/ \E o \in Solo, c \in Configs : NewBase(o, c)
    \/ \E o \in Solo, a \in EvtArrays : AddEventListeners(o, a)
    \/ \E o \in Solo, e \in Events : On(o, e)
    \/ \E o \in Solo : RemoveAllListeners(o)
    \/ \E o \in Solo, e \in Events, m \in Meta : Emit(o, e, m)
    \/ \E o \in Solo, x \in ErrorInputs : FireError(o, x)

SpecBind == Init /\ [][NextBind]_vars

\* One object of the base class with handlers that register handlers.
NextReenter ==
    \/ \E o \in Solo, c \in Configs : NewBase(o, c)
    \/ \E o \in Solo, e \in Events : On(o, e)
    \/ \E o \in Solo, e \in Events : Once(o, e)
    \/ \E o \in Solo, e \in Events : OnceAdder(o, e)
    \/ \E o \in Solo : RemoveAllListeners(o)
    \/ \E o \in Solo, e \in Events, m \in Meta : Emit(o, e, m)

SpecReenter == Init /\ [][NextReenter]_vars

\* One object, of the base class or a Login, every operation either has,
\* and a monitor that comes and goes.
NextMonitor ==
    \/ \E o \in Solo : NewBase(o, Undefined)
    \/ \E o \in Solo : NewLogin(o, Undefined)
    \/ \E o \in Solo, e \in Events : On(o, e)
    \/ \E o \in Solo, e \in Events : Once(o, e)
    \/ \E o \in Solo : SetMaxListeners(o, 0)
    \/ \E o \in Solo : RemoveAllListeners(o)
    \/ \E o \in Solo, e \in Events : Emit(o, e, Obj("m"))
    \/ \E o \in Solo, e \in Events : FireEvent(o, e, Obj("m"))
    \/ \E o \in Solo, cb \in Preconditions : FireWarning(o, Str("w"), cb)
    \/ \E o \in Solo : FireError(o, Str("boom"))
    \/ \E o \in Solo, a \in {Obj("['Error']")} : AddEventListeners(o, a)
    \/ \E o \in Solo, p \in Readable : ReadProp(o, p)
    \/ \E o \in Solo : WriteProp(o, "modified", True)
    \/ \E o \in Solo : ProcessHttpRequest(o, Obj("fb"))
    \/ \E o \in Solo : Authenticate(o, Undefined)
    \/ AttachMonitor
    \/ DetachMonitor

SpecMonitor == Init /\ [][NextMonitor]_vars
---------------------------------------------------------------------------
(* The claims.                                                             *)

\* the receiver's listener list
ListenersOf(o) == listeners[emitterOf[o]]

\* the handler invocations of the call, as registration ids, in order
Invoked == IdsOf(Calls(trace))

\* every send of the trace comes after every handler invocation
CallsBeforeSends ==
    \A i, j \in 1 .. Len(trace) :
        trace[i].k = "send" /\ trace[j].k = "call" => j < i

\* C1 (as claimed): a fireEvent call invokes every handler registered for
\* the event before the monitor receives anything, and the monitor receives
\* exactly one send when it was attached at call time and none when not.
C1_FireEventForwardsOnce ==
    last.op = "fireEvent" =>
        /\ Invoked = last.pre
        /\ CallsBeforeSends
        /\ Len(Sends(trace)) = (IF last.mon THEN 1 ELSE 0)

\* C2 (as claimed): fireError always returns true and never raises, and
\* each registered 'error' listener receives exactly one event whose
\* payload is the normalized error.
C2_FireErrorReturnsTrue ==
    last.op = "fireError" =>
        /\ last.outcome = "returned"
        /\ last.ret = True
        /\ Invoked = last.pre
        /\ \A j \in 1 .. Len(trace) :
               trace[j].k = "call" => trace[j].arg = NormalizeError(last.arg)

\* C3 (as claimed): on an instance with no 'error' listener, none of
\* emit('error'), fireEvent('error'), fireError, a write of modified, a read
\* of accesstoken or oauthprovider, authenticate ends in a thrown exception.
C3_NoThrowWithoutErrorListener ==
    (/\ last.op \in {"emit", "fireEvent", "fireError", "set", "get", "authenticate"}
     /\ last.ev = "error"
     /\ last.pre = <<>>)
    => last.outcome = "returned"

Members(ls) == {ls[j] : j \in 1 .. Len(ls)}
TimesInvoked(r, t) == Len(SelectSeq(t, LAMBDA x : x.k = "call" /\ x.id = r.id))

\* One step of the object o, for C4: only what was registered when the call
\* started is invoked, and at most once; a once listener that was invoked is
\* registered no more; an emit that returns invokes every listener of its
\* event once, in registration order; a listener registered with on stays
\* registered unless the call is removeAllListeners; removeAllListeners
\* leaves nothing registered.
C4_Step(o) ==
    LET before == ListenersOf(o)
        after  == ListenersOf(o)'
    IN  /\ \A c \in 1 .. Len(trace') :
               trace'[c].k = "call" => \E r \in Members(before) : r.id = trace'[c].id
        /\ \A r \in Members(before) :
               /\ TimesInvoked(r, trace') <= 1
               /\ (r.once /\ TimesInvoked(r, trace') = 1) => r \notin Members(after)
               /\ (last'.op = "emit" /\ last'.outcome = "returned" /\ r.ev = last'.ev)
                      => TimesInvoked(r, trace') = 1
               /\ (~r.once /\ last'.op # "removeAllListeners") => r \in Members(after)
        /\ last'.op = "emit" =>
               IdsOf(Calls(trace')) \in {<<>>, IdsOf(ListenersFor(before, last'.ev))}
        /\ last'.op = "removeAllListeners" => after = <<>>

\* C4: once handlers run at most once and are unregistered by their first
\* run; on handlers run on every emit of their event until
\* removeAllListeners; after removeAllListeners nothing registered before
\* it is invoked again (registrations are never given an id a second time).
C4_OnceOnRemoveAll ==
    [][\A o \in Objs :
          (emitterOf[o] # 0 /\ last'.inst = o /\ last' # last) => C4_Step(o)]_vars

\* C4 witness: an emit invoked two listeners, of which the once listener is
\* gone and the on listener still registered.
C4_Witness ==
    /\ last.op = "emit"
    /\ Len(Invoked) = 2
    /\ Len(ListenersOf(last.inst)) = 1
    /\ ListenersOf(last.inst)[1].id \in {Invoked[1], Invoked[2]}

\* C5: constructing a Login runs the construction logic of Class, of the
\* NGN base class and of Login once each, in that order, Login's own field
\* setup last; the emitter is created by then and no operation replaces it.
C5_ConstructionOrder ==
    /\ [](\A o \in Objs : kind[o] = "Login" =>
              /\ ctorLog[o] = <<"Class", "NGNClass", "Login">>
              /\ emitterOf[o] # 0)
    /\ [][\A o \in Objs : emitterOf[o] # 0 => emitterOf'[o] = emitterOf[o]]_vars

\* C5 witness: a Login has been constructed and then called.
C5_Witness ==
    \E o \in Objs : kind[o] = "Login" /\ last.inst = o /\ last.op = "set"

\* C6 (as claimed): constructing a base object or a Login with no config or
\* an empty one completes, and the instance has its emitter, an unset ID
\* and modified false.
C6_ConstructionNeverFails ==
    (/\ last.op \in {"new NGNClass", "new Login"}
     /\ last.arg \in {Undefined, EmptyConfig})
    => /\ last.outcome = "returned"
       /\ emitterOf[last.inst] # 0
       /\ last.op = "new Login" =>
              /\ LooseNull(GetProp(last.inst, "ID").val)
              /\ GetProp(last.inst, "modified").val = False

\* the registrations made by calls on o, wherever they are kept
RegisteredOn(o) ==
    {r \in UNION {Members(listeners[e]) : e \in Emitters} : r.owner = o}

\* C7: a call on one object invokes only handlers registered on that
\* object, and removeAllListeners on one object removes no handler of
\* another.
C7_ChannelsNotShared ==
    /\ [](\A j \in 1 .. Len(trace) :
              trace[j].k = "call" => trace[j].owner = last.inst)
    /\ [][\A a, b \in Objs :
              (a # b /\ last'.inst = a /\ last' # last)
                  => RegisteredOn(b)' = RegisteredOn(b)]_vars

\* C7 witness: an emit on one object invoked its handler while another
\* object has a handler registered for the same event.
C7_Witness ==
    /\ last.op = "emit"
    /\ Invoked # <<>>
    /\ \E b \in Objs : /\ b # last.inst
                       /\ emitterOf[b] # 0
                       /\ ListenersFor(ListenersOf(b), last.ev) # <<>>

\* C8: fireWarning with a precondition that returns false delivers no
\* 'warn' event and logs nothing; otherwise every 'warn' listener receives
\* one event whose payload is the message itself; the precondition is
\* evaluated before anything else happens.
C8_FireWarning ==
    last.op = "fireWarning" =>
        /\ last.arg2 = Str("false") => trace = <<Precond(last.arg)>>
        /\ last.arg2 # Str("false") =>
               /\ Invoked = last.pre
               /\ \A j \in 1 .. Len(trace) :
                      trace[j].k = "call" =>
                          trace[j].arg = last.arg /\ trace[j].ev = "warn"
               /\ Len(Logs(trace)) = 1
        /\ last.arg2 # Str("omitted") => trace[1] = Precond(last.arg)
        /\ last.arg2 = Str("omitted") => \A j \in 1 .. Len(trace) : trace[j].k # "precond"

\* C8 witness: the precondition vetoed a warning that had a listener, and
\* (the other case) a warning with the empty message reached a listener.
C8_Witness ==
    /\ last.op = "fireWarning"
    /\ last.pre # <<>>
    /\ \/ last.arg2 = Str("false")
       \/ last.arg = Str("") /\ Invoked # <<>>

\* C9 (as claimed): a write of modified delivers an InvalidSet error event
\* to the 'error' listeners and reading modified afterwards returns what it
\* returned before.
C9_ModifiedSetRejected ==
    [][\A o \in Objs :
          (/\ last'.op = "set" /\ last'.arg = Str("modified")
           /\ last'.inst = o /\ last' # last)
          => /\ IdsOf(Calls(trace')) = last'.pre
             /\ \A j \in 1 .. Len(trace') :
                    trace'[j].k = "call" => trace'[j].arg = Obj("InvalidSet")
             /\ GetProp(o, "modified").val' = GetProp(o, "modified").val]_vars

\* C10 (as claimed): after processHttpRequest with a payload whose user is
\* {<provider>: ..., id: i, accessToken: t}, oauthprovider is the provider
\* key in lower case, oauth its code, accesstoken t and ID i.
C10_ExtractThenRead ==
    (last.op = "processHttpRequest" /\ HasUser(last.arg)) =>
        LET u == PayloadUser[last.arg.v]
            o == last.inst
        IN  /\ last.outcome = "returned"
            /\ GetProp(o, "oauthprovider") = Returned(o, Str(TrimLower(u.key)))
            /\ GetProp(o, "oauth") = Returned(o, ProviderCode(Str(TrimLower(u.key))))
            /\ GetProp(o, "accesstoken") = Returned(o, u.accessToken)
            /\ GetProp(o, "ID") = Returned(o, u.id)

\* the identityId of a configuration object
ConfigIdentityId(config) ==
    IF config = Obj("{identityId}") THEN Str("id7") ELSE Undefined

\* no payload is attached to the Login o: none came with the configuration
\* and none was extracted
NoPayload(o) ==
    /\ GetProp(o, "_request").val \in {Undefined, Null, Obj("{}")}
    /\ LooseNull(GetProp(o, "_data").val)

\* the payload attached to the Login o names the provider email
ResolvedEmail(o) == GetProp(o, "_data").val = Obj("mail")

\* the ids of the listeners of o for eventName
ListeningTo(o, eventName) == IdsOf(ListenersFor(ListenersOf(o), eventName))

\* C11 (as claimed): after new Login({identityId: v}), with no payload,
\* reading ID returns v; and reading oauthprovider of a Login with no
\* payload returns an unset value without throwing, an InvalidAttribute
\* error event having gone to each 'error' listener.
C11_IdentityIdOnly ==
    /\ (last.op = "new Login" /\ last.arg = Obj("{identityId}")) =>
           GetProp(last.inst, "ID") = Returned(last.inst, ConfigIdentityId(last.arg))
    /\ (last.op = "get" /\ last.arg = Str("oauthprovider") /\ NoPayload(last.inst)) =>
           /\ last.outcome = "returned"
           /\ LooseNull(last.ret)
           /\ Invoked = last.pre
           /\ \A j \in 1 .. Len(trace) :
                  trace[j].k = "call" => trace[j].arg = Obj("InvalidAttribute")

\* C12 (as claimed): authenticate() with no argument on a Login with no
\* payload returns, having delivered a NoPayload error event to each 'error'
\* listener, and leaves every attribute as it was.
C12_AuthenticateNoPayload ==
    [][\A o \in Objs :
          (/\ last'.op = "authenticate" /\ last'.arg = Undefined
           /\ last'.inst = o /\ last' # last /\ NoPayload(o))
          => /\ last'.outcome = "returned"
             /\ IdsOf(Calls(trace')) = last'.pre
             /\ \A j \in 1 .. Len(trace') :
                    trace'[j].k = "call" =>
                        trace'[j].arg = Str("No request stream available.")
             /\ props' = props]_vars

\* C13 (as claimed): reading oauth never throws and returns the code of the
\* table for what reading oauthprovider returns: gh for github, ..., eml for
\* email, and no code for any other or unset provider.
C13_ProviderCodeTotal ==
    \A o \in Objs : kind[o] = "Login" =>
        LET name == GetProp(o, "oauthprovider")
            code == GetProp(o, "oauth")
        IN  /\ ~code.threw
            /\ ~name.threw =>
                  IF ProviderCode(name.val) = Null THEN LooseNull(code.val)
                  ELSE code.val = ProviderCode(name.val)

\* C14 (as claimed): when the provider of the attached payload is email,
\* reading accesstoken returns an absent value, whatever token is stored,
\* and each 'warn' listener of the object is invoked exactly once.
C14_EmailTokenAbsent ==
    (last.op = "get" /\ last.arg = Str("accesstoken") /\ ResolvedEmail(last.inst)) =>
        /\ last.outcome = "returned"
        /\ LooseNull(last.ret)
        /\ Invoked = ListeningTo(last.inst, "warn")

\* C20 (as claimed): reading modified of a Login never returns true.
C20_ModifiedNeverTrue ==
    \A o \in Objs : kind[o] = "Login" => GetProp(o, "modified").val # True

\* C16 (as claimed): in a fireEvent with a monitor attached, the metadata
\* sent to the monitor is the value each handler received, and a handler
\* never receives an unset value, also when the metadata was omitted.
C16_MonitorSeesSameMetadata ==
    (last.op = "fireEvent" /\ last.mon /\ last.outcome = "returned") =>
        /\ Len(Sends(trace)) = 1
        /\ \A i, j \in 1 .. Len(trace) :
               (trace[i].k = "call" /\ trace[j].k = "send") =>
                   trace[j].arg = trace[i].arg
        /\ \A i \in 1 .. Len(trace) :
               trace[i].k = "call" => trace[i].arg # Undefined

\* the listener a name of the array stands for: the event it is registered
\* under and the function registered
BoundBy(d) ==
    CASE d \in {"Error", " Error "} -> [ev |-> "error", h |-> "onError"]
      [] d = "error"                -> [ev |-> "error", h |-> "emptyFn"]
      [] d = "Ev"                   -> [ev |-> "ev", h |-> "emptyFn"]

\* C15 (as claimed): addEventListeners returns, having appended one
\* listener for each name whose method the object has, under the trimmed
\* name in lower case, and none for a name with no such method.
C15_MissingMethodNotBound ==
    [][\A o \in Objs :
          (last'.op = "addEventListeners" /\ last'.inst = o)
          => LET evt    == SelectSeq(Elements(last'.arg),
                                     LAMBDA d : BoundBy(d).h = "onError")
                 before == listeners[emitterOf[o]]
                 after  == listeners'[emitterOf[o]]
             IN  /\ last'.outcome = "returned"
                 /\ Len(after) = Len(before) + Len(evt)
                 /\ SubSeq(after, 1, Len(before)) = before
                 /\ \A j \in 1 .. Len(evt) :
                        /\ after[Len(before) + j].ev = BoundBy(evt[j]).ev
                        /\ after[Len(before) + j].h = BoundBy(evt[j]).h]_vars

\* C15 (amended): addEventListeners returns, having appended one listener
\* for each name of the array, in order, under the trimmed name in lower
\* case: the method on<trimmed name> when the object has it, and the no-op
\* function otherwise.
C15_EveryNameBound ==
    [][\A o \in Objs :
          (last'.op = "addEventListeners" /\ last'.inst = o)
          => LET evt    == Elements(last'.arg)
                 before == listeners[emitterOf[o]]
                 after  == listeners'[emitterOf[o]]
             IN  /\ last'.outcome = "returned"
                 /\ Len(after) = Len(before) + Len(evt)
                 /\ SubSeq(after, 1, Len(before)) = before
                 /\ \A j \in 1 .. Len(evt) :
                        /\ after[Len(before) + j].ev = BoundBy(evt[j]).ev
                        /\ after[Len(before) + j].h = BoundBy(evt[j]).h
                        /\ ~after[Len(before) + j].once]_vars

\* addEventListeners(['Error', 'Ev']) has bound onError and, for the name
\* with no method, the no-op function
C15_Witness ==
    /\ last.op = "addEventListeners" /\ last.arg = Obj("['Error','Ev']")
    /\ \E i, j \in 1 .. Len(ListenersOf(last.inst)) :
           /\ ListenersOf(last.inst)[i].h = "onError"
           /\ ListenersOf(last.inst)[j].h = "emptyFn"

\* C18 (as claimed): when the listeners for 'error' are the default onError
\* (bound with addEventListeners), fireError(e) returns true, the error
\* having reached the diagnostic output a finite number of times.
C18_DefaultHandlerReturns ==
    (/\ last.op = "fireError"
     /\ last.pre # <<>>
     /\ \A j \in 1 .. Len(ListenersOf(last.inst)) :
            ListenersOf(last.inst)[j].ev = "error" =>
                ListenersOf(last.inst)[j].h = "onError")
    => /\ last.outcome = "returned"
       /\ last.ret = True
       /\ Len(Logs(trace)) >= 1

\* C19: an emit that returns has invoked, in registration order, exactly
\* the listeners registered for the event when it was called, each with the
\* metadata or null; the handler a listener registered while it ran is
\* registered afterwards and was not invoked by that emit, and (being
\* registered at the call of the next emit) is invoked by the next one.
C19_EmitDeliversSnapshot ==
    [][\A o \in Objs :
          (last'.op = "emit" /\ last'.inst = o /\ last'.outcome = "returned")
          => LET before == ListenersFor(listeners[emitterOf[o]], last'.ev)
                 after  == ListenersFor(listeners'[emitterOf[o]], last'.ev)
             IN  /\ IdsOf(Calls(trace')) = IdsOf(before)
                 /\ \A j \in 1 .. Len(trace') :
                        trace'[j].arg = Or(last'.arg, Null)
                 /\ \A j \in 1 .. Len(before) :
                        before[j].h = "adder" =>
                            /\ before[j].id + MaxRegs \in Members(IdsOf(after))
                            /\ before[j].id + MaxRegs
                                   \notin Members(IdsOf(Calls(trace')))]_vars

\* an emit has invoked a handler that a handler registered during an
\* earlier emit
C19_Witness ==
    /\ last.op = "emit" /\ last.outcome = "returned"
    /\ \E j \in 1 .. Len(Invoked) : Invoked[j] > MaxRegs

\* C17: a message goes to the monitor only in a call of fireEvent or
\* fireError; and whether a monitor is attached changes in no call of an
\* operation of the object, only when the process attaches it or takes it
\* away.
C17_OnlyFireEventSends ==
    /\ [](Sends(trace) # <<>> => last.op \in {"fireEvent", "fireError"})
    /\ [][mechanic' # mechanic => last'.op \in {"attach", "detach"}]_vars

\* with the monitor attached, a fireWarning has reached a listener and sent
\* the monitor nothing
C17_Witness ==
    /\ last.op = "fireWarning" /\ last.mon
    /\ Calls(trace) # <<>>
    /\ Sends(trace) = <<>>

=============================================================================
